---- MODULE Spec2Model ----
(***************************************************************************)
(* SafeRoute NYC front end: the panic button (PanicButton.jsx), the route  *)
(* request hook and dashboard provider (useSafeRoute.js,                   *)
(* dashboard-context.jsx) and the geocode suggestion hook (useGeocoder).   *)
(* and the map selection coordinator of the dashboard provider, and the    *)
(* map view (MapDashboard.jsx) with the helpers of services/mapbox.js.     *)
(* Each component is a state machine of its own; they share no state       *)
(* except the `disabled` prop of the panic button, which the dashboard     *)
(* feeds from the route hook's loading flag.                               *)
(***************************************************************************)
EXTENDS Integers, Sequences, FiniteSets, TLC

VARIABLES
    \* ---- PanicButton (component state, refs, props, environment) ----
    mounted,        \* the component instance is mounted
    status,         \* useState("idle")
    countdown,      \* useState(0)
    timerRef,       \* useRef(null): 0 is null, otherwise an interval id
    intervals,      \* live setInterval timers, each with the closure it captured
    coords,         \* useGeolocation().coords: 0 is null, otherwise a position
    geoError,       \* useGeolocation().error is set (the feed's last event failed)
    disabled,       \* the `disabled` prop
    pending,        \* sendPanicAlert calls whose promise has not settled
    dispatchCount,  \* number of sendPanicAlert calls issued so far
    lastTimestamp,  \* useState(null): 0 is null, otherwise a response's timestamp
    lastAlertAt,    \* AuthContext's lastAlertAt: 0 is null
    \* ---- PanicButton (history) ----
    lastCall,       \* the last sendPanicAlert call: payload and what was known
    lastEvent,      \* kind of the last event handled
    cancelled,      \* cancel was pressed and no click has followed
    flowTicks,      \* ticks seen since an undisturbed click from idle
    confirmEnded,   \* confirmations ended by 'send now' or countdown expiry
    failed,         \* a dispatch failed and no click has followed
    \* ---- DashboardProvider / useSafeRoute ----
    routeInit,        \* the provider's mount effect has run
    mutations,        \* the mutation cache: one entry per submitted request, in order
    currentMutation,  \* the mutation the hook's observer is subscribed to (0: none)
    routeData,        \* the observer's `data`
    routeError,       \* the observer's `error` (0: null, else the failed request)
    isRouteLoading,   \* the observer's `isPending`
    lastRouteParams,  \* useState(DEFAULT_COORDS)
    closureParams,    \* lastRouteParams as captured by the rendered triggerRouteRequest
    \* ---- DashboardProvider (history) ----
    maxShown,         \* latest-submitted request whose result was ever displayed
    lastResolved,     \* the request that settled last
    shownAtSubmit,    \* routeData as it was when the current request was submitted
    uncaught,         \* requests whose rejection no caller handled
    \* ---- useGeocoder ----
    query,            \* the hook's `query` argument
    results,          \* useState([])
    isLoading,        \* useState(false)
    error,            \* useState(null)
    timeoutPending,   \* the current effect's debounce timer is armed
    timeoutQuery,     \* the query the armed timer's callback captured
    lookups,          \* forwardGeocode calls whose network response is outstanding
    \* ---- useGeocoder (history) ----
    lastWriter,       \* the lookup whose result was last written to `results`
    geoEvent,         \* kind of the last geocoder event
    cancelledTimer,   \* the latest change of the query cancelled an armed timer
    \* ---- DashboardProvider map selection, RouteForm, MapDashboard ----
    mapSelectionTarget,     \* useState(null): "none" is null
    mapSelectionCallbacks,  \* useRef({}): field -> handler, 0 is no entry
    registrations,          \* de-registration functions returned and not yet invoked
    selectedStartCoords,    \* useState(null): 0 is null
    selectedEndCoords,      \* useState(null): 0 is null
    startCoords,            \* RouteForm's useState(DEFAULT_START)
    endCoords,              \* RouteForm's useState(DEFAULT_END)
    \* ---- map selection (history) ----
    handlerCount,           \* handlers registered so far; handler k is the k-th
    deregistered,           \* handlers whose de-registration function was invoked
    invoked,                \* handler invocations made by the last event
    selEvent,               \* kind of the last selection event
    begun,                  \* the field of the latest beginMapSelection
    clicked,                \* the coordinate of the latest map click
    overwritten,            \* a pending target was replaced by one for another field
    deregPending,           \* a handler was de-registered while its field was pending
    clickListeners,         \* the map's attached click listeners, by the target captured
    sinceBegin,             \* handler invocations since the latest beginMapSelection
    \* ---- MapDashboard: the view, its refs and the context values it rendered ----
    viewPhase,              \* "unmounted", "mounted" or "gone" (unmounted again)
    accessToken,            \* mapboxgl.accessToken is set
    mapRef,                 \* mapRef.current is an engine instance (FALSE: null)
    propHeatmapData,        \* heatmapData of the last render: 0 is undefined
    propHeatmapVisible,     \* heatmapVisible of the last render
    propRouteData,          \* routeData of the last render
    propActiveRouteKey,     \* activeRouteKey of the last render
    propStartCoords,        \* selectedStartCoords of the last render: 0 is null
    propEndCoords,          \* selectedEndCoords of the last render: 0 is null
    startMarkerRef,         \* useRef(null)
    endMarkerRef,           \* useRef(null)
    waypointMarkersRef,     \* useRef([])
    selectionStartMarkerRef, \* useRef(null)
    selectionEndMarkerRef,  \* useRef(null)
    timer,                  \* the setTimeout(..., 100) of handleStyleLoad, if pending
    \* ---- the map engine instance ----
    engine,                 \* "none", "loading", "loaded" or "removed"
    styleLoadOnce,          \* listeners registered with once("style.load"), in order
    styleDataOnce,          \* listeners registered with once("styledata"), in order
    sources,                \* the style's sources, by id
    layers,                 \* the style's layers, by id
    markers,                \* the markers added to the map
    hasControl,             \* the navigation control was added
    \* ---- MapDashboard (history) ----
    engines,                \* engine instances constructed so far
    thrown,                 \* an exception left the initialization effect
    mapEvent,               \* kind of the last map event
    \* ---- source and layer upserts on a style of their own ----
    styleSources,           \* the style's sources, by id
    styleLayers,            \* the style's layers, by id
    upsertCalls,            \* the upsert calls made so far, in order
    \* ---- PanicButton's acknowledgment, on a clock in seconds ----
    clock,                  \* the time
    toast,                  \* useState(null): the acknowledgment is shown
    toastTimers,            \* due times of the pending setTimeout calls, in order
    ackAt,                  \* time of the latest successful dispatch (history)
    acks,                   \* successful dispatches so far (history)
    \* ---- RouteForm: labels of the two fields ----
    startLabel,             \* useState(formatCoords(DEFAULT_START))
    endLabel,               \* useState(formatCoords(DEFAULT_END))
    reverseLookups,         \* reverseGeocode calls whose promise has not settled
    reverseCount,           \* reverseGeocode calls made so far
    \* ---- DashboardProvider: the heatmap query, on a clock in seconds ----
    heatClock,              \* the time
    heatFetching,           \* an attempt of fetchCrimeHeatmap is in flight
    heatLoaded,             \* the query holds data
    heatmapError,           \* the query's `error` is set
    failureCount,           \* the query's count of failed attempts
    retryAt,                \* due time of the retry timer (NoRetry: none)
    heatAttempts,           \* attempts started so far (history)
    heatFailedAt,           \* time of the latest failure (history)
    heatEvent               \* kind of the last event of the query (history)

panicVars == <<mounted, status, countdown, timerRef, intervals, coords, geoError, disabled,
               pending, dispatchCount, lastTimestamp, lastAlertAt, lastCall,
               lastEvent, cancelled, flowTicks, confirmEnded, failed>>

routeVars == <<routeInit, mutations, currentMutation, routeData, routeError,
               isRouteLoading, lastRouteParams, closureParams, maxShown, lastResolved,
               shownAtSubmit, uncaught>>

geoVars == <<query, results, isLoading, error, timeoutPending, timeoutQuery, lookups,
             lastWriter, geoEvent, cancelledTimer>>

selectVars == <<mapSelectionTarget, mapSelectionCallbacks, registrations,
                selectedStartCoords, selectedEndCoords, startCoords, endCoords,
                handlerCount, deregistered, invoked, selEvent, begun, clicked,
                overwritten, deregPending, clickListeners, sinceBegin>>

mapVars == <<viewPhase, accessToken, mapRef, propHeatmapData, propHeatmapVisible,
             propRouteData, propActiveRouteKey, propStartCoords, propEndCoords,
             startMarkerRef, endMarkerRef, waypointMarkersRef,
             selectionStartMarkerRef, selectionEndMarkerRef, timer, engine,
             styleLoadOnce, styleDataOnce, sources, layers, markers, hasControl,
             engines, thrown, mapEvent>>

upsertVars == <<styleSources, styleLayers, upsertCalls>>

toastVars == <<clock, toast, toastTimers, ackAt, acks>>

labelVars == <<startLabel, endLabel, reverseLookups, reverseCount>>

heatVars == <<heatClock, heatFetching, heatLoaded, heatmapError, failureCount, retryAt,
              heatAttempts, heatFailedAt, heatEvent>>

vars == <<panicVars, routeVars, geoVars, selectVars, mapVars, upsertVars, toastVars,
          labelVars, heatVars>>

----------------------------------------------------------------------------
(* Bounds of the model. *)
MaxCoord == 2
MaxTimers == 2
MaxCalls == 2
MaxParams == 2
MaxReq == 3
MaxQueryLen == 7
MaxLookups == 2
MaxHandlers == 3
MaxClick == 2
MaxHeat == 1
MaxResult == 2
MaxPick == 1
MaxStyleLoadOnce == 4
MaxStyleDataOnce == 2
MaxUpserts == 3
MaxData == 2
MaxTime == 12
MaxAcks == 2
MaxReverse == 3
MaxHeatTime == 8

(* Program constants. *)
CountdownStart == 5
CurrentUser == 1
DefaultCoords == 1
MinQueryLen == 3
DefaultPoint == 0
ShortestLen == 4
ToastDelay == 5
HeatmapRetry == 2
HeatmapRetryDelay == 1

Null == 0
NoFlow == 0 - 1
NoCall == [lat |-> Null, userId |-> Null, known |-> Null, via |-> "none"]

----------------------------------------------------------------------------
(* PanicButton *)

InitPanic ==
    /\ mounted = TRUE
    /\ status = "idle"
    /\ countdown = 0
    /\ timerRef = Null
    /\ intervals = {}
    /\ coords = Null
    /\ geoError = FALSE
    /\ disabled \in BOOLEAN
    /\ pending = {}
    /\ dispatchCount = 0
    /\ lastCall = NoCall
    /\ lastEvent = "init"
    /\ cancelled = FALSE
    /\ flowTicks = NoFlow
    /\ confirmEnded = 0
    /\ lastTimestamp = Null
    /\ lastAlertAt = Null
    /\ failed = FALSE

\* clearInterval(timerRef.current): only the interval the ref names is removed.
ClearRef(ivs, ref) == {t \in ivs : t.id # ref}

\* setInterval returns an id that no live interval and no stored handle uses.
FreshId(ivs, ref) ==
    CHOOSE i \in 1..(MaxTimers + 2) :
        /\ i # ref
        /\ \A t \in ivs : t.id # i
        /\ \A j \in 1..(i - 1) : j = ref \/ \E t \in ivs : t.id = j

\* The updater's test `prev <= 1`.
TickExpiredOff(prev) == prev <= 0
TickExpired(prev) == prev <= 1

\* The payload sendAlert builds from the coords and user of its own render.
Payload(lat) == [n |-> dispatchCount + 1, lat |-> lat, userId |-> CurrentUser]

\* sendAlert up to its await: setStatus("sending") and the sendPanicAlert call.
\* `lat` is the coords value of the render whose sendAlert closure runs.
SendAlert(lat, via) ==
    /\ status' = IF mounted THEN "sending" ELSE status
    /\ pending' = pending \cup {Payload(lat)}
    /\ dispatchCount' = dispatchCount + 1
    /\ lastCall' = [lat |-> lat, userId |-> CurrentUser, known |-> coords, via |-> via]

\* startCountdown: the interval callback closes over this render's sendAlert,
\* hence over this render's coords. An interval the ref already names is not
\* cleared.
StartCountdown ==
    /\ status' = "confirming"
    /\ countdown' = CountdownStart
    /\ LET id == FreshId(intervals, timerRef) IN
        /\ intervals' = intervals \cup {[id |-> id, lat |-> coords]}
        /\ timerRef' = id

\* The main button's DOM attribute disabled={disabled || !coords}.
PanicButtonEnabled == ~(disabled \/ coords = Null)

\* The 'send now' button's DOM attribute disabled={!coords}; it is rendered
\* only while status is confirming.
SendNowEnabled == status = "confirming" /\ coords # Null

\* handleClick reaches startCountdown.
ClickStarts == PanicButtonEnabled /\ ~disabled /\ status \notin {"sending", "confirming"}

ClickPanic ==
    /\ UNCHANGED <<routeVars, geoVars, selectVars, mapVars, upsertVars, toastVars, labelVars, heatVars>>
    /\ UNCHANGED geoError
    /\ mounted
    /\ Cardinality(intervals) < MaxTimers
    /\ lastEvent' = "click"
    /\ cancelled' = FALSE
    /\ failed' = FALSE
    /\ UNCHANGED <<lastTimestamp, lastAlertAt>>
    /\ IF ClickStarts
       THEN /\ StartCountdown
            /\ flowTicks' = IF status = "idle" THEN 0 ELSE NoFlow
       ELSE /\ flowTicks' = NoFlow
            /\ UNCHANGED <<status, countdown, intervals, timerRef>>
    /\ UNCHANGED <<mounted, coords, disabled, pending, dispatchCount, lastCall, confirmEnded>>

\* onClick={sendAlert} of the 'send now' button: sendAlert of the current render.
SendNow ==
    /\ UNCHANGED <<routeVars, geoVars, selectVars, mapVars, upsertVars, toastVars, labelVars, heatVars>>
    /\ UNCHANGED geoError
    /\ UNCHANGED <<lastTimestamp, lastAlertAt, failed>>
    /\ mounted
    /\ status = "confirming"
    /\ dispatchCount < MaxCalls
    /\ lastEvent' = "sendNow"
    /\ flowTicks' = NoFlow
    /\ IF SendNowEnabled
       THEN /\ SendAlert(coords, "sendNow")
            /\ confirmEnded' = confirmEnded + 1
       ELSE UNCHANGED <<status, pending, dispatchCount, lastCall, confirmEnded>>
    /\ UNCHANGED <<mounted, countdown, timerRef, intervals, coords, disabled, cancelled>>

\* cancelCountdown; the cancel button is rendered only while confirming.
CancelCountdown ==
    /\ UNCHANGED <<routeVars, geoVars, selectVars, mapVars, upsertVars, toastVars, labelVars, heatVars>>
    /\ UNCHANGED geoError
    /\ UNCHANGED <<lastTimestamp, lastAlertAt, failed>>
    /\ mounted
    /\ status = "confirming"
    /\ intervals' = IF timerRef # Null THEN ClearRef(intervals, timerRef) ELSE intervals
    /\ timerRef' = Null
    /\ countdown' = 0
    /\ status' = "idle"
    /\ lastEvent' = "cancel"
    /\ cancelled' = TRUE
    /\ flowTicks' = NoFlow
    /\ UNCHANGED <<mounted, coords, disabled, pending, dispatchCount, lastCall, confirmEnded>>

\* The setCountdown updater run for a tick of interval t.
Updater(t) ==
    IF TickExpired(countdown)
    THEN /\ dispatchCount < MaxCalls
         /\ intervals' = ClearRef(intervals, timerRef)
         /\ timerRef' = Null
         /\ SendAlert(t.lat, "expiry")
         /\ confirmEnded' = IF mounted /\ status = "confirming"
                            THEN confirmEnded + 1 ELSE confirmEnded
         /\ countdown' = IF mounted THEN 0 ELSE countdown
    ELSE /\ countdown' = IF mounted THEN countdown - 1 ELSE countdown
         /\ UNCHANGED <<intervals, timerRef, status, pending, dispatchCount,
                        lastCall, confirmEnded>>

\* One firing of a live interval while the component is mounted.
Tick ==
    /\ UNCHANGED <<routeVars, geoVars, selectVars, mapVars, upsertVars, toastVars, labelVars, heatVars>>
    /\ UNCHANGED geoError
    /\ UNCHANGED <<lastTimestamp, lastAlertAt, failed>>
    /\ mounted
    /\ \E t \in intervals : Updater(t)
    /\ lastEvent' = "tick"
    /\ flowTicks' = IF flowTicks \in 0..(CountdownStart - 1) THEN flowTicks + 1 ELSE NoFlow
    /\ UNCHANGED <<mounted, coords, disabled, cancelled>>

\* One firing of an interval that outlived the component. React schedules no
\* render for an unmounted component; whether it still evaluates the updater
\* (eagerly, against the last rendered state) depends on the update queue, so
\* both outcomes are allowed.
TickAfterUnmount ==
    /\ UNCHANGED <<routeVars, geoVars, selectVars, mapVars, upsertVars, toastVars, labelVars, heatVars>>
    /\ UNCHANGED geoError
    /\ UNCHANGED <<lastTimestamp, lastAlertAt, failed>>
    /\ ~mounted
    /\ \E t \in intervals :
        \/ Updater(t)
        \/ UNCHANGED <<intervals, timerRef, status, pending, dispatchCount,
                       lastCall, confirmEnded, countdown>>
    /\ lastEvent' = "tick"
    /\ UNCHANGED <<mounted, coords, disabled, cancelled, flowTicks>>

\* The timestamp the alert service puts in its response to call p: one per call.
Stamp(p) == p.n

\* recordAlert(timestamp): a missing timestamp is ignored.
RecordAlertDropped(current, timestamp) == current
RecordAlert(current, timestamp) == IF timestamp = Null THEN current ELSE timestamp

\* sendPanicAlert resolves: setLastTimestamp, recordAlert, setStatus("sent").
\* recordAlert belongs to the auth provider, which outlives the button.
DispatchOk ==
    /\ UNCHANGED <<routeVars, geoVars, selectVars, mapVars, upsertVars, toastVars, labelVars, heatVars>>
    /\ UNCHANGED geoError
    /\ \E p \in pending :
        /\ pending' = pending \ {p}
        /\ lastTimestamp' = IF mounted THEN Stamp(p) ELSE lastTimestamp
        /\ lastAlertAt' = RecordAlert(lastAlertAt, Stamp(p))
    /\ UNCHANGED failed
    /\ status' = IF mounted THEN "sent" ELSE status
    /\ lastEvent' = "ok"
    /\ flowTicks' = IF flowTicks = CountdownStart THEN CountdownStart + 1
                    ELSE IF flowTicks \in 0..(CountdownStart - 1) THEN flowTicks
                    ELSE NoFlow
    /\ UNCHANGED <<mounted, countdown, timerRef, intervals, coords, disabled,
                   dispatchCount, lastCall, cancelled, confirmEnded>>

\* sendPanicAlert rejects: setStatus("error").
DispatchFail ==
    /\ UNCHANGED <<routeVars, geoVars, selectVars, mapVars, upsertVars, toastVars, labelVars, heatVars>>
    /\ UNCHANGED geoError
    /\ \E p \in pending : pending' = pending \ {p}
    /\ status' = IF mounted THEN "error" ELSE status
    /\ failed' = (mounted \/ failed)
    /\ UNCHANGED <<lastTimestamp, lastAlertAt>>
    /\ lastEvent' = "fail"
    /\ flowTicks' = IF flowTicks \in 0..(CountdownStart - 1) THEN flowTicks ELSE NoFlow
    /\ UNCHANGED <<mounted, countdown, timerRef, intervals, coords, disabled,
                   dispatchCount, lastCall, cancelled, confirmEnded>>

\* watchPosition delivers a position: setCoords({lat, lng}); setError(null).
GeoUpdate ==
    /\ UNCHANGED <<routeVars, geoVars, selectVars, mapVars, upsertVars, toastVars, labelVars, heatVars>>
    /\ geoError' = FALSE
    /\ UNCHANGED <<lastTimestamp, lastAlertAt, failed>>
    /\ mounted
    /\ \E c \in 1..MaxCoord : c # coords /\ coords' = c
    /\ lastEvent' = "geo"
    /\ UNCHANGED <<mounted, status, countdown, timerRef, intervals, disabled, pending,
                   dispatchCount, lastCall, cancelled, flowTicks, confirmEnded>>

\* watchPosition reports an error: setError(err.message). The coords state is
\* left as it is, so the last position delivered stays the known position.
GeoFails ==
    /\ UNCHANGED <<routeVars, geoVars, selectVars, mapVars, upsertVars, toastVars, labelVars, heatVars>>
    /\ UNCHANGED <<lastTimestamp, lastAlertAt, failed>>
    /\ mounted
    /\ geoError' = TRUE
    /\ lastEvent' = "geoError"
    /\ UNCHANGED <<mounted, status, countdown, timerRef, intervals, coords, disabled,
                   pending, dispatchCount, lastCall, cancelled, flowTicks, confirmEnded>>

\* The dashboard re-renders the button with disabled={isRouteLoading}.
SetDisabled ==
    /\ UNCHANGED <<routeVars, geoVars, selectVars, mapVars, upsertVars, toastVars, labelVars, heatVars>>
    /\ UNCHANGED geoError
    /\ UNCHANGED <<lastTimestamp, lastAlertAt, failed>>
    /\ mounted
    /\ disabled' = ~disabled
    /\ lastEvent' = "disabled"
    /\ UNCHANGED <<mounted, status, countdown, timerRef, intervals, coords, pending,
                   dispatchCount, lastCall, cancelled, flowTicks, confirmEnded>>

\* The cleanup of the mount effect: clearInterval(timerRef.current) if set.
Unmount ==
    /\ UNCHANGED <<routeVars, geoVars, selectVars, mapVars, upsertVars, toastVars, labelVars, heatVars>>
    /\ UNCHANGED geoError
    /\ UNCHANGED <<lastTimestamp, lastAlertAt, failed>>
    /\ mounted
    /\ mounted' = FALSE
    /\ intervals' = IF timerRef # Null THEN ClearRef(intervals, timerRef) ELSE intervals
    /\ lastEvent' = "unmount"
    /\ flowTicks' = NoFlow
    /\ UNCHANGED <<status, countdown, timerRef, coords, disabled, pending,
                   dispatchCount, lastCall, cancelled, confirmEnded>>

\* AuthContext's logout: lastAlertAt is set to null and the user to null, so
\* RequireAuth leaves the dashboard and the button unmounts.
Logout ==
    /\ UNCHANGED <<routeVars, geoVars, selectVars, mapVars, upsertVars, toastVars, labelVars, heatVars>>
    /\ UNCHANGED geoError
    /\ mounted
    /\ mounted' = FALSE
    /\ lastAlertAt' = Null
    /\ intervals' = IF timerRef # Null THEN ClearRef(intervals, timerRef) ELSE intervals
    /\ lastEvent' = "logout"
    /\ flowTicks' = NoFlow
    /\ UNCHANGED <<status, countdown, timerRef, coords, disabled, pending,
                   dispatchCount, lastTimestamp, lastCall, cancelled, confirmEnded,
                   failed>>

NextPanic ==
    \/ ClickPanic
    \/ SendNow
    \/ CancelCountdown
    \/ Tick
    \/ TickAfterUnmount
    \/ DispatchOk
    \/ DispatchFail
    \/ GeoUpdate
    \/ SetDisabled
    \/ Unmount
    \/ Logout

\* The panic button with a position feed that can also fail.
NextPanicFeed == NextPanic \/ GeoFails



----------------------------------------------------------------------------
(* DashboardProvider and useSafeRoute: route requests.                     *)
(* Request params are indices into a small set of (start, end) pairs;      *)
(* DefaultCoords is the index of DEFAULT_COORDS.                           *)

RouteParams == 1..MaxParams
NoData == [req |-> 0, start |-> 0, end |-> 0]
NoPayload == 0

InitRoute ==
    /\ routeInit = FALSE
    /\ mutations = <<>>
    /\ currentMutation = 0
    /\ routeData = NoData
    /\ routeError = 0
    /\ isRouteLoading = FALSE
    /\ lastRouteParams = DefaultCoords
    /\ maxShown = 0
    /\ lastResolved = 0
    /\ shownAtSubmit = NoData
    /\ closureParams = DefaultCoords
    /\ uncaught = {}

\* A params value p stands for a pair of distinct coordinates; DefaultCoords
\* stands for DEFAULT_COORDS.
StartOf(p) == 2 * p - 1
EndOf(p) == 2 * p

\* The routing service's answer to request `id`: start and end echo the params.
ResponseDefault(id) ==
    [req |-> id, start |-> StartOf(DefaultCoords), end |-> EndOf(DefaultCoords)]
Response(id) ==
    [req |-> id, start |-> StartOf(mutations[id].params),
     end |-> EndOf(mutations[id].params)]

\* The observer's `data` when its mutation succeeds: the response itself.
DataOnSuccessKept(old, response) == old
DataOnSuccess(old, response) == response

\* setLastRouteParams(params) in triggerRouteRequest.
NextLastParamsKept(old, params) == old
NextLastParams(old, params) == params

\* Whether the caller that started a request handles its rejection: the mount
\* effect (.catch) and the form's handleSubmit (try/catch) do; the retry
\* button's onClick and a bare call drop the promise.
CaughtFormOnly(origin) == origin = "form"
Caught(origin) == origin \in {"mount", "form"}

\* No lastRouteParams update awaits a render: user events and responses are
\* handled only then.
Rendered == closureParams = lastRouteParams

\* useMutation's observer follows only the mutation of the latest mutate call:
\* a settled older mutation no longer notifies it.
NotifiesAny(id) == TRUE
Notifies(id) == id = currentMutation

Max(a, b) == IF a >= b THEN a ELSE b

\* mutateAsync(params): a new mutation is built, the observer moves to it and
\* its result restarts from the pending state (data undefined, error null).
RequestRoute(params, origin, payload) ==
    /\ mutations' = Append(mutations,
                           [params |-> params, state |-> "pending", origin |-> origin,
                            payload |-> payload,
                            retryOf |-> IF origin = "retry" THEN routeError ELSE 0])
    /\ currentMutation' = Len(mutations) + 1
    /\ routeData' = NoData
    /\ routeError' = 0
    /\ isRouteLoading' = TRUE
    /\ shownAtSubmit' = routeData
    /\ UNCHANGED <<maxShown, lastResolved, uncaught>>

\* The provider's mount effect: requestRoute(DEFAULT_COORDS) and
\* setLastRouteParams(DEFAULT_COORDS).
MountRequest ==
    /\ UNCHANGED <<panicVars, geoVars, selectVars, mapVars, upsertVars, toastVars, labelVars, heatVars>>
    /\ ~routeInit
    /\ routeInit' = TRUE
    /\ RequestRoute(DefaultCoords, "mount", DefaultCoords)
    /\ lastRouteParams' = DefaultCoords
    /\ UNCHANGED closureParams

\* triggerRouteRequest(payload): payload || lastRouteParams || DEFAULT_COORDS,
\* where lastRouteParams is the value the callback captured at the last render.
TriggerRouteRequest(payload, origin) ==
    /\ UNCHANGED <<panicVars, geoVars, selectVars, mapVars, upsertVars, toastVars, labelVars, heatVars>>
    /\ routeInit
    /\ Len(mutations) < MaxReq
    /\ LET params == IF payload # NoPayload THEN payload
                      ELSE IF closureParams # NoPayload THEN closureParams
                      ELSE DefaultCoords
        IN /\ lastRouteParams' = NextLastParams(lastRouteParams, params)
           /\ RequestRoute(params, origin, payload)
    /\ UNCHANGED <<routeInit, closureParams>>

\* RouteForm's handleSubmit: requestRoute({start, end}) inside try/catch.
SubmitForm ==
    /\ Rendered
    /\ \E payload \in RouteParams : TriggerRouteRequest(payload, "form")

\* The retry button of RouteComparisonPanel, rendered while an error is shown:
\* onClick={() => requestRoute(lastRouteParams)}.
Retry ==
    /\ Rendered
    /\ routeError # 0
    /\ ~isRouteLoading
    /\ TriggerRouteRequest(lastRouteParams, "retry")

\* A consumer calls the context's requestRoute directly, with or without
\* params; the call may follow another one of the same handler, before the
\* provider has re-rendered.
CallRequestRoute ==
    \E payload \in RouteParams \cup {NoPayload} : TriggerRouteRequest(payload, "call")

\* The provider re-renders after setLastRouteParams: useCallback builds a new
\* triggerRouteRequest over the new lastRouteParams.
Render ==
    /\ UNCHANGED <<panicVars, geoVars, selectVars, mapVars, upsertVars, toastVars, labelVars, heatVars>>
    /\ ~Rendered
    /\ closureParams' = lastRouteParams
    /\ UNCHANGED <<routeInit, mutations, currentMutation, routeData, routeError,
                   isRouteLoading, lastRouteParams, maxShown, lastResolved,
                   shownAtSubmit, uncaught>>

\* fetchSafeRoute resolves for request id.
RouteResolves ==
    /\ UNCHANGED <<panicVars, geoVars, selectVars, mapVars, upsertVars, toastVars, labelVars, heatVars>>
    /\ Rendered
    /\ \E id \in 1..Len(mutations) :
        /\ mutations[id].state = "pending"
        /\ mutations' = [mutations EXCEPT ![id].state = "success"]
        /\ lastResolved' = id
        /\ IF Notifies(id)
           THEN /\ routeData' = DataOnSuccess(routeData, Response(id))
                /\ routeError' = 0
                /\ isRouteLoading' = FALSE
                /\ maxShown' = Max(maxShown, id)
           ELSE UNCHANGED <<routeData, routeError, isRouteLoading, maxShown>>
    /\ UNCHANGED <<routeInit, currentMutation, lastRouteParams, closureParams,
                   shownAtSubmit, uncaught>>

\* fetchSafeRoute rejects for request id.
RouteRejects ==
    /\ UNCHANGED <<panicVars, geoVars, selectVars, mapVars, upsertVars, toastVars, labelVars, heatVars>>
    /\ Rendered
    /\ \E id \in 1..Len(mutations) :
        /\ mutations[id].state = "pending"
        /\ uncaught' = IF Caught(mutations[id].origin) THEN uncaught
                       ELSE uncaught \cup {id}
        /\ mutations' = [mutations EXCEPT ![id].state = "error"]
        /\ lastResolved' = id
        /\ IF Notifies(id)
           THEN /\ routeError' = id
                /\ isRouteLoading' = FALSE
           ELSE UNCHANGED <<routeError, isRouteLoading>>
    /\ UNCHANGED <<routeInit, currentMutation, routeData, lastRouteParams,
                   closureParams, maxShown, shownAtSubmit>>

NextRoute ==
    \/ MountRequest
    \/ SubmitForm
    \/ Retry
    \/ CallRequestRoute
    \/ Render
    \/ RouteResolves
    \/ RouteRejects

----------------------------------------------------------------------------
(* useGeocoder: debounced, abortable forward-geocode lookups.              *)
(* A query is a sequence of characters; the queries of the model are the   *)
(* prefixes of one typed text.                                             *)

Text == <<" ", "W", "a", "l", "l", " ", "S", "t", " ">>
Queries == {SubSeq(Text, 1, k) : k \in 0..MaxQueryLen}

RECURSIVE TrimStart(_)
TrimStart(q) == IF Len(q) > 0 /\ Head(q) = " " THEN TrimStart(Tail(q)) ELSE q

RECURSIVE TrimEnd(_)
TrimEnd(q) ==
    IF Len(q) > 0 /\ q[Len(q)] = " " THEN TrimEnd(SubSeq(q, 1, Len(q) - 1)) ELSE q

\* String.prototype.trim
Trim(q) == TrimEnd(TrimStart(q))

\* The hook's `enabled` option; no caller passes it, so it has its default.
enabled == TRUE

\* The effect's early return: !enabled || !query || query.trim().length < 3.
TooShortUntrimmed(q) == ~enabled \/ Len(q) = 0 \/ Len(q) < MinQueryLen
TooShort(q) == ~enabled \/ Len(q) = 0 \/ Len(Trim(q)) < MinQueryLen

NoWriter == [id |-> 0, src |-> <<>>, aborted |-> FALSE]

InitGeo ==
    /\ query = <<>>
    /\ results = <<>>
    /\ isLoading = FALSE
    /\ error = FALSE
    /\ timeoutPending = FALSE
    /\ timeoutQuery = <<>>
    /\ cancelledTimer = FALSE
    /\ lookups = {}
    /\ lastWriter = NoWriter
    /\ geoEvent = "init"

\* The features the geocoding service returns for a search text.
Features(text) == <<[place_name |-> text]>>

\* A fetch that was given the controller's signal settles with the network
\* response only if the controller has not been aborted.
DeliveredAlways(l) == TRUE
Delivered(l) == ~l.aborted

\* The cleanup's clearTimeout(timeout): the armed timer never fires.
ClearTimeoutKept(armed) == armed
ClearTimeout(armed) == FALSE

FreshLookup == CHOOSE i \in 1..(MaxLookups + 1) : \A l \in lookups : l.id # i

\* The hook is re-rendered with another query: the previous effect's cleanup
\* (clearTimeout, controller.abort()) runs, then the effect body. An aborted
\* fetch rejects with AbortError at once: catch returns, finally clears
\* isLoading.
SetQuery ==
    /\ UNCHANGED <<panicVars, routeVars, selectVars, mapVars, upsertVars, toastVars, labelVars, heatVars>>
    /\ \E q \in Queries :
        /\ q # query
        /\ query' = q
        /\ lookups' = {[l EXCEPT !.aborted = l.aborted \/ l.src = query] : l \in lookups}
        /\ isLoading' = IF \E l \in lookups : ~l.aborted THEN FALSE ELSE isLoading
        /\ cancelledTimer' = timeoutPending
        /\ IF TooShort(q)
           THEN /\ results' = <<>>
                /\ timeoutPending' = ClearTimeout(timeoutPending)
                /\ timeoutQuery' = IF timeoutPending' THEN timeoutQuery ELSE <<>>
           ELSE /\ results' = results
                /\ timeoutPending' = TRUE
                /\ timeoutQuery' = q
    /\ geoEvent' = "query"
    /\ UNCHANGED <<error, lastWriter>>

\* The 250 ms timer fires: setIsLoading(true); forwardGeocode(query.trim(), {signal}).
DebounceFires ==
    /\ UNCHANGED <<panicVars, routeVars, selectVars, mapVars, upsertVars, toastVars, labelVars, heatVars>>
    /\ timeoutPending
    /\ Cardinality(lookups) < MaxLookups
    /\ timeoutPending' = FALSE
    /\ isLoading' = TRUE
    /\ lookups' = lookups \cup
          {[id |-> FreshLookup, src |-> timeoutQuery, text |-> Trim(timeoutQuery),
            aborted |-> FALSE]}
    /\ geoEvent' = "lookup"
    /\ timeoutQuery' = <<>>
    /\ UNCHANGED <<query, results, error, lastWriter, cancelledTimer>>

\* The network answers a lookup with features.
LookupResponds ==
    /\ UNCHANGED <<panicVars, routeVars, selectVars, mapVars, upsertVars, toastVars, labelVars, heatVars>>
    /\ \E l \in lookups :
        /\ lookups' = lookups \ {l}
        /\ IF Delivered(l)
           THEN /\ results' = Features(l.text)
                /\ error' = FALSE
                /\ isLoading' = FALSE
                /\ lastWriter' = [id |-> l.id, src |-> l.src, aborted |-> l.aborted]
                /\ geoEvent' = "applied"
           ELSE /\ geoEvent' = "dropped"
                /\ UNCHANGED <<results, error, isLoading, lastWriter>>
    /\ UNCHANGED <<query, timeoutPending, timeoutQuery, cancelledTimer>>

\* The network answers a lookup with a failure (not an abort).
LookupFails ==
    /\ UNCHANGED <<panicVars, routeVars, selectVars, mapVars, upsertVars, toastVars, labelVars, heatVars>>
    /\ \E l \in lookups :
        /\ lookups' = lookups \ {l}
        /\ IF Delivered(l)
           THEN /\ error' = TRUE
                /\ isLoading' = FALSE
                /\ geoEvent' = "failed"
           ELSE /\ geoEvent' = "dropped"
                /\ UNCHANGED <<error, isLoading>>
    /\ UNCHANGED <<query, results, timeoutPending, timeoutQuery, lastWriter,
                   cancelledTimer>>

NextGeo ==
    \/ SetQuery
    \/ DebounceFires
    \/ LookupResponds
    \/ LookupFails

----------------------------------------------------------------------------
(* Map selection: the provider's coordinator (registerMapSelectionHandler, *)
(* beginMapSelection, completeMapSelection), the form's handlers and the   *)
(* map's click listener.                                                   *)

Fields == {"start", "end"}

InitSelect ==
    /\ mapSelectionTarget = "none"
    /\ mapSelectionCallbacks = [f \in Fields |-> 0]
    /\ registrations = {}
    /\ selectedStartCoords = Null
    /\ selectedEndCoords = Null
    /\ startCoords = DefaultPoint
    /\ endCoords = DefaultPoint
    /\ handlerCount = 0
    /\ deregistered = {}
    /\ invoked = <<>>
    /\ selEvent = "init"
    /\ begun = "none"
    /\ clicked = Null
    /\ overwritten = FALSE
    /\ deregPending = FALSE
    /\ clickListeners = {"none"}
    /\ sinceBegin = 0

\* setMapSelectionTarget(field): the state holds one target, the latest.
TargetAfterBeginFirst(target, field) == IF target = "none" THEN field ELSE target
TargetAfterBegin(target, field) == field

\* delete mapSelectionCallbacks.current[field].
AfterDeleteKept(callbacks, field) == callbacks
AfterDelete(callbacks, field) == [callbacks EXCEPT ![field] = 0]

\* completeMapSelection ends with setMapSelectionTarget(null), outside the
\* test for a handler.
TargetAfterCompleteHandled(target, handled) == IF handled THEN "none" ELSE target
TargetAfterComplete(target, handled) == "none"

\* registerMapSelectionHandler(field, handler): the entry of the field is
\* overwritten; the returned function deletes the entry of the field.
RegisterMapSelectionHandler ==
    /\ UNCHANGED <<panicVars, routeVars, geoVars, mapVars, upsertVars, toastVars, labelVars, heatVars>>
    /\ handlerCount < MaxHandlers
    /\ \E field \in Fields :
        /\ mapSelectionCallbacks' =
              [mapSelectionCallbacks EXCEPT ![field] = handlerCount + 1]
        /\ registrations' =
              registrations \cup {[field |-> field, handler |-> handlerCount + 1]}
    /\ handlerCount' = handlerCount + 1
    /\ invoked' = <<>>
    /\ selEvent' = "register"
    /\ UNCHANGED <<mapSelectionTarget, selectedStartCoords, selectedEndCoords,
                   startCoords, endCoords, deregistered, begun, clicked, overwritten,
                   deregPending, clickListeners, sinceBegin>>

\* A de-registration function returned by registerMapSelectionHandler runs.
Deregister ==
    /\ UNCHANGED <<panicVars, routeVars, geoVars, mapVars, upsertVars, toastVars, labelVars, heatVars>>
    /\ \E r \in registrations :
        /\ registrations' = registrations \ {r}
        /\ mapSelectionCallbacks' = AfterDelete(mapSelectionCallbacks, r.field)
        /\ deregistered' = deregistered \cup {r.handler}
        /\ deregPending' = (deregPending \/ mapSelectionTarget = r.field)
    /\ invoked' = <<>>
    /\ selEvent' = "deregister"
    /\ UNCHANGED <<mapSelectionTarget, selectedStartCoords, selectedEndCoords,
                   startCoords, endCoords, handlerCount, begun, clicked, overwritten,
                   clickListeners, sinceBegin>>

\* The cleanup of the map's click effect: map.off("click", handleClick).
OffClickKept(listeners, target) == listeners
OffClick(listeners, target) == listeners \ {target}

\* The click effect after a render with a new target: the cleanup of the
\* previous run, then map.on("click", handleClick) with a listener that
\* captured the new target. The effect does not run when the target is the same.
ReattachClick(listeners, old, new) ==
    IF old = new THEN listeners ELSE OffClick(listeners, old) \cup {new}

\* beginMapSelection(field).
BeginMapSelection ==
    /\ UNCHANGED <<panicVars, routeVars, geoVars, mapVars, upsertVars, toastVars, labelVars, heatVars>>
    /\ \E field \in Fields :
        /\ mapSelectionTarget' = TargetAfterBegin(mapSelectionTarget, field)
        /\ begun' = field
        /\ overwritten' = (mapSelectionTarget \notin {"none", field})
    /\ invoked' = <<>>
    /\ selEvent' = "begin"
    /\ deregPending' = FALSE
    /\ clickListeners' = ReattachClick(clickListeners, mapSelectionTarget, mapSelectionTarget')
    /\ sinceBegin' = 0
    /\ UNCHANGED <<mapSelectionCallbacks, registrations, selectedStartCoords,
                   selectedEndCoords, startCoords, endCoords, handlerCount,
                   deregistered, clicked>>

\* The form's handler for `field`, applyCoords(field, coords), followed by
\* completeMapSelection's own setSelected...Coords(coords).
ApplyCoords(field, point) ==
    /\ startCoords' = IF field = "start" THEN point ELSE startCoords
    /\ endCoords' = IF field = "start" THEN endCoords ELSE point
    /\ selectedStartCoords' = IF field = "start" THEN point ELSE selectedStartCoords
    /\ selectedEndCoords' = IF field = "end" THEN point ELSE selectedEndCoords

\* The target that the attached click listener and its completeMapSelection
\* captured: the effect re-attaches the listener on every change of the target,
\* in the task of the event that changed it.
ListenerTargetStale == IF mapSelectionTarget = "none" THEN begun ELSE mapSelectionTarget
ListenerTarget == mapSelectionTarget

\* completeMapSelection(coords) of the render whose target is mapSelectionTarget.
CompleteMapSelection(point) ==
    LET target == ListenerTarget
        handled == target # "none" /\ mapSelectionCallbacks[target] # 0
    IN /\ IF handled
          THEN /\ invoked' = <<[field |-> target,
                                handler |-> mapSelectionCallbacks[target],
                                coords |-> point]>>
               /\ ApplyCoords(target, point)
               /\ selEvent' = "click"
          ELSE /\ invoked' = <<>>
               /\ selEvent' = "dropped"
               /\ UNCHANGED <<startCoords, endCoords, selectedStartCoords,
                              selectedEndCoords>>
       /\ mapSelectionTarget' = TargetAfterComplete(target, handled)

\* The map's click listener, handleClick: nothing without a target, else
\* completeMapSelection({lat, lng}).
MapClick ==
    /\ UNCHANGED <<panicVars, routeVars, geoVars, mapVars, upsertVars, toastVars, labelVars, heatVars>>
    /\ \E point \in 1..MaxClick :
        /\ clicked' = point
        /\ IF ListenerTarget = "none"
           THEN /\ invoked' = <<>>
                /\ selEvent' = "ignored"
                /\ UNCHANGED <<mapSelectionTarget, startCoords, endCoords,
                               selectedStartCoords, selectedEndCoords>>
           ELSE CompleteMapSelection(point)
    /\ clickListeners' = ReattachClick(clickListeners, mapSelectionTarget, mapSelectionTarget')
    /\ sinceBegin' = sinceBegin + Len(invoked')
    /\ UNCHANGED <<mapSelectionCallbacks, registrations, handlerCount, deregistered,
                   begun, overwritten, deregPending>>

NextSelect ==
    \/ RegisterMapSelectionHandler
    \/ Deregister
    \/ BeginMapSelection
    \/ MapClick

----------------------------------------------------------------------------
(* services/mapbox.js: create-or-update helpers on a style.  A style is a  *)
(* pair of functions, one from source ids and one from layer ids; `adds`   *)
(* counts the addSource/addLayer calls made for an id, 0 meaning that      *)
(* getSource/getLayer finds nothing.                                       *)

SourceIds == {"crime", "shortest-route", "safest-route", "risk-polygons"}

LayerIds == {"crime-heatmap", "shortest-route-line", "safest-route-line",
             "risk-polygons-fill"}

NoSource == [adds |-> 0, data |-> 0]

NoLayer == [adds |-> 0, source |-> "none", paint |-> "none", dash |-> "none",
            visibility |-> "visible"]

\* ensureGeoJSONSource(map, id, data).
EnsureGeoJSONSource(srcs, id, data) ==
    IF srcs[id].adds > 0
    THEN [srcs EXCEPT ![id].data = data]
    ELSE [srcs EXCEPT ![id] = [adds |-> 1, data |-> data]]

\* ensureLineLayer(map, {id, sourceId, color, width, dasharray, opacity}):
\* `paint` stands for colour, width, opacity and blur, which are set together;
\* the dash pattern is set on an existing layer only when one is passed.
EnsureLineLayer(lyrs, id, sourceId, paint, dasharray) ==
    IF lyrs[id].adds > 0
    THEN [lyrs EXCEPT ![id].paint = paint,
                      ![id].dash = IF dasharray # "none" THEN dasharray ELSE @]
    ELSE [lyrs EXCEPT ![id] = [adds |-> 1, source |-> sourceId, paint |-> paint,
                               dash |-> dasharray, visibility |-> "visible"]]

\* ensureHeatmapLayer(map, sourceId): the layer id is fixed.
EnsureHeatmapLayer(lyrs, sourceId) ==
    IF lyrs["crime-heatmap"].adds > 0
    THEN lyrs
    ELSE [lyrs EXCEPT !["crime-heatmap"] =
             [adds |-> 1, source |-> sourceId, paint |-> "heatmap", dash |-> "none",
              visibility |-> "visible"]]

\* ensurePolygonLayer(map, {id, sourceId, opacity}).
EnsurePolygonLayer(lyrs, id, sourceId, opacity) ==
    IF lyrs[id].adds > 0
    THEN [lyrs EXCEPT ![id].paint = opacity]
    ELSE [lyrs EXCEPT ![id] = [adds |-> 1, source |-> sourceId, paint |-> opacity,
                               dash |-> "none", visibility |-> "visible"]]

\* map.setLayoutProperty(id, "visibility", value).
SetLayoutProperty(lyrs, id, value) == [lyrs EXCEPT ![id].visibility = value]

----------------------------------------------------------------------------
(* MapDashboard: the view's effects, and the engine events they wait for.  *)
(* The engine is the environment: it emits "styledata" whenever style data *)
(* changes, also while the style is loading, and "style.load" once; a      *)
(* removed instance emits nothing.  isStyleLoaded() is engine = "loaded".  *)

RouteKeys == {"safest", "shortest"}

\* routeData: null, or a result with both alternatives, whose risk_polygons
\* may be absent.
NoRoute == [id |-> 0, polygons |-> FALSE]

NoMarker == [kind |-> "none", of |-> 0, at |-> 0]

NoTimer == [armed |-> FALSE, start |-> 0, end |-> 0]

\* The once("style.load") listeners of the view.
Control == [kind |-> "control", data |-> 0, visible |-> TRUE, start |-> 0, end |-> 0]
AddHeatmapOnce(data, visible) ==
    [kind |-> "heat", data |-> data, visible |-> visible, start |-> 0, end |-> 0]
HandleStyleLoad(start, end) ==
    [kind |-> "sel", data |-> 0, visible |-> TRUE, start |-> start, end |-> end]

\* What the callbacks work on: the engine's content and the view's refs.
World ==
    [sources |-> sources, layers |-> layers, markers |-> markers,
     hasControl |-> hasControl, timer |-> timer,
     startMarkerRef |-> startMarkerRef, endMarkerRef |-> endMarkerRef,
     waypointMarkersRef |-> waypointMarkersRef,
     selectionStartMarkerRef |-> selectionStartMarkerRef,
     selectionEndMarkerRef |-> selectionEndMarkerRef]

worldVars == <<sources, layers, markers, hasControl, timer, startMarkerRef,
               endMarkerRef, waypointMarkersRef, selectionStartMarkerRef,
               selectionEndMarkerRef>>

Commit(w) ==
    /\ sources' = w.sources
    /\ layers' = w.layers
    /\ markers' = w.markers
    /\ hasControl' = w.hasControl
    /\ timer' = w.timer
    /\ startMarkerRef' = w.startMarkerRef
    /\ endMarkerRef' = w.endMarkerRef
    /\ waypointMarkersRef' = w.waypointMarkersRef
    /\ selectionStartMarkerRef' = w.selectionStartMarkerRef
    /\ selectionEndMarkerRef' = w.selectionEndMarkerRef

\* One selection marker of updateSelectionMarkers: moved or created when the
\* coordinate is set, removed when it is null.
SelectionMarker(kind, point) == [kind |-> kind, of |-> 0, at |-> point]

MarkersAfterSelection(all, ref, kind, point) ==
    IF point # 0
    THEN (all \ {ref}) \cup {SelectionMarker(kind, point)}
    ELSE all \ {ref}

RefAfterSelection(kind, point) ==
    IF point # 0 THEN SelectionMarker(kind, point) ELSE NoMarker

\* updateSelectionMarkers(map) of the render with these two coordinates.
UpdateSelectionMarkers(w, start, end) ==
    LET afterStart == MarkersAfterSelection(w.markers, w.selectionStartMarkerRef,
                                            "selStart", start)
    IN [w EXCEPT
          !.markers = MarkersAfterSelection(afterStart, w.selectionEndMarkerRef,
                                            "selEnd", end),
          !.selectionStartMarkerRef = RefAfterSelection("selStart", start),
          !.selectionEndMarkerRef = RefAfterSelection("selEnd", end)]

\* addHeatmap of the render with this data and visibility.
AddHeatmap(w, data, visible) ==
    IF data = 0
    THEN w
    ELSE [w EXCEPT
            !.sources = EnsureGeoJSONSource(@, "crime", data),
            !.layers = SetLayoutProperty(EnsureHeatmapLayer(@, "crime"),
                                         "crime-heatmap",
                                         IF visible THEN "visible" ELSE "none")]

\* clearMarkers(): the markers the three refs hold are removed.
ClearMarkers(w) ==
    [w EXCEPT !.markers = @ \ ({w.startMarkerRef, w.endMarkerRef}
                                 \cup w.waypointMarkersRef),
              !.startMarkerRef = NoMarker, !.endMarkerRef = NoMarker,
              !.waypointMarkersRef = {}]

\* addWaypoints(geometry): the sampled coordinate indexes, then start and end.
SampleInterval(n) == IF n \div 10 > 1 THEN n \div 10 ELSE 1

WaypointIndexes(n) ==
    {i \in 0..(n - 1) : /\ i >= SampleInterval(n)
                        /\ i < n - SampleInterval(n)
                        /\ i % SampleInterval(n) = 0}

AddWaypoints(w, id, ref) ==
    IF ~ref \/ ShortestLen < 2
    THEN w
    ELSE LET waypoints == {[kind |-> "waypoint", of |-> id, at |-> i] :
                              i \in WaypointIndexes(ShortestLen)}
             first == [kind |-> "start", of |-> id, at |-> 0]
             last == [kind |-> "end", of |-> id, at |-> ShortestLen - 1]
         IN [w EXCEPT !.markers = @ \cup waypoints \cup {first, last},
                      !.waypointMarkersRef = @ \cup waypoints,
                      !.startMarkerRef = first,
                      !.endMarkerRef = last]

\* The colour and width drawRoutes passes for a line, by the active route.
LinePaint(route, key) == IF route = key THEN "active" ELSE "inactive"

\* drawRoutes of the render with this result and active route; `ref` is
\* mapRef.current at the time it runs.
DrawRoutes(w, route, key, ref) ==
    LET cleared == ClearMarkers(w)
        lines ==
            [cleared EXCEPT
               !.sources = EnsureGeoJSONSource(
                              EnsureGeoJSONSource(@, "shortest-route", route.id),
                              "safest-route", route.id),
               !.layers = EnsureLineLayer(
                             EnsureLineLayer(@, "shortest-route-line",
                                             "shortest-route",
                                             LinePaint("shortest", key), "2,2"),
                             "safest-route-line", "safest-route",
                             LinePaint("safest", key), "none")]
        marked == AddWaypoints(lines, route.id, ref)
    IN IF route.polygons
       THEN [marked EXCEPT
               !.sources = EnsureGeoJSONSource(@, "risk-polygons", route.id),
               !.layers = EnsurePolygonLayer(@, "risk-polygons-fill",
                                             "risk-polygons", "default")]
       ELSE marked

\* One once("style.load") listener runs.
StyleLoadListener(w, l) ==
    CASE l.kind = "control" -> [w EXCEPT !.hasControl = TRUE]
      [] l.kind = "heat" -> AddHeatmap(w, l.data, l.visible)
      [] l.kind = "sel" ->
            [w EXCEPT !.timer = [armed |-> TRUE, start |-> l.start, end |-> l.end]]

\* The listeners of an event run in the order of their registration.
RECURSIVE RunStyleLoadOnce(_, _)
RunStyleLoadOnce(w, queue) ==
    IF queue = <<>>
    THEN w
    ELSE RunStyleLoadOnce(StyleLoadListener(w, Head(queue)), Tail(queue))

RECURSIVE RunStyleDataOnce(_, _, _)
RunStyleDataOnce(w, queue, ref) ==
    IF queue = <<>>
    THEN w
    ELSE RunStyleDataOnce(DrawRoutes(w, Head(queue).route, Head(queue).key, ref),
                          Tail(queue), ref)

\* map.off("style.load", handleStyleLoad).
WithoutHandleStyleLoad(queue) == SelectSeq(queue, LAMBDA l : l.kind # "sel")

InitMap ==
    /\ viewPhase = "unmounted"
    /\ accessToken = FALSE
    /\ mapRef = FALSE
    /\ propHeatmapData = 0
    /\ propHeatmapVisible = TRUE
    /\ propRouteData = NoRoute
    /\ propActiveRouteKey = "safest"
    /\ propStartCoords = 0
    /\ propEndCoords = 0
    /\ startMarkerRef = NoMarker
    /\ endMarkerRef = NoMarker
    /\ waypointMarkersRef = {}
    /\ selectionStartMarkerRef = NoMarker
    /\ selectionEndMarkerRef = NoMarker
    /\ timer = NoTimer
    /\ engine = "none"
    /\ styleLoadOnce = <<>>
    /\ styleDataOnce = <<>>
    /\ sources = [id \in SourceIds |-> NoSource]
    /\ layers = [id \in LayerIds |-> NoLayer]
    /\ markers = {}
    /\ hasControl = FALSE
    /\ engines = 0
    /\ thrown = FALSE
    /\ mapEvent = "init"

\* The try/catch of the initialization effect: nothing leaves the effect.
InitThrowsUncaught(token, constructs) == token /\ ~constructs
InitThrows(token, constructs) == FALSE

\* The cleanup of the initialization effect: mapRef.current.remove().
CleanupRemovesNothing(state) == state
CleanupRemoves(state) == "removed"

\* The view mounts: render, then the effects in the order of their
\* declaration.  Without a token the view renders the empty state and the
\* container ref stays null; the engine's constructor may throw.  With an
\* instance, the selection and heatmap effects find the style not loaded
\* and register their listeners; the route effect returns (no routeData).
MountMap ==
    /\ UNCHANGED <<panicVars, routeVars, geoVars, selectVars, upsertVars, toastVars, labelVars, heatVars>>
    /\ viewPhase = "unmounted"
    /\ viewPhase' = "mounted"
    /\ \E token \in BOOLEAN, constructs \in BOOLEAN :
        /\ accessToken' = token
        /\ thrown' = InitThrows(token, constructs)
        /\ IF ~mapRef /\ token /\ constructs
           THEN /\ mapRef' = TRUE
                /\ engine' = "loading"
                /\ engines' = engines + 1
                /\ styleLoadOnce' =
                      <<Control, HandleStyleLoad(propStartCoords, propEndCoords),
                        AddHeatmapOnce(propHeatmapData, propHeatmapVisible)>>
           ELSE UNCHANGED <<mapRef, engine, engines, styleLoadOnce>>
    /\ mapEvent' = "mount"
    /\ UNCHANGED <<propHeatmapData, propHeatmapVisible, propRouteData,
                   propActiveRouteKey, propStartCoords, propEndCoords,
                   styleDataOnce, worldVars>>

\* The heatmap effect of a render with this data and visibility.
HeatmapEffect(data, visible) ==
    IF ~mapRef
    THEN UNCHANGED <<styleLoadOnce, worldVars>>
    ELSE IF engine # "loaded"
         THEN /\ styleLoadOnce' = Append(styleLoadOnce, AddHeatmapOnce(data, visible))
              /\ UNCHANGED worldVars
         ELSE /\ Commit(AddHeatmap(World, data, visible))
              /\ UNCHANGED styleLoadOnce

\* The route effect of a render with this result and active route.
RouteEffect(route, key) ==
    IF ~mapRef \/ route = NoRoute
    THEN UNCHANGED <<styleDataOnce, worldVars>>
    ELSE IF engine # "loaded"
         THEN /\ styleDataOnce' = Append(styleDataOnce, [route |-> route, key |-> key])
              /\ UNCHANGED worldVars
         ELSE /\ Commit(DrawRoutes(World, route, key, mapRef))
              /\ UNCHANGED styleDataOnce

\* The selection marker effect of a render with these coordinates, after the
\* cleanup of the previous run.
SelectionEffect(start, end) ==
    IF ~mapRef
    THEN UNCHANGED <<styleLoadOnce, worldVars>>
    ELSE IF engine # "loaded"
         THEN /\ styleLoadOnce' = Append(WithoutHandleStyleLoad(styleLoadOnce),
                                         HandleStyleLoad(start, end))
              /\ UNCHANGED worldVars
         ELSE /\ Commit(UpdateSelectionMarkers(World, start, end))
              /\ styleLoadOnce' = WithoutHandleStyleLoad(styleLoadOnce)

\* The heatmap query delivers data.
HeatmapArrives ==
    /\ UNCHANGED <<panicVars, routeVars, geoVars, selectVars, upsertVars, toastVars, labelVars, heatVars>>
    /\ viewPhase = "mounted"
    /\ Len(styleLoadOnce) < MaxStyleLoadOnce
    /\ \E data \in 1..MaxHeat :
        /\ data # propHeatmapData
        /\ propHeatmapData' = data
        /\ HeatmapEffect(data, propHeatmapVisible)
    /\ mapEvent' = "heat"
    /\ UNCHANGED <<viewPhase, accessToken, mapRef, propHeatmapVisible, propRouteData,
                   propActiveRouteKey, propStartCoords, propEndCoords, engine,
                   styleDataOnce, engines, thrown>>

\* The legend's checkbox: setHeatmapVisible(checked).
ToggleHeatmap ==
    /\ UNCHANGED <<panicVars, routeVars, geoVars, selectVars, upsertVars, toastVars, labelVars, heatVars>>
    /\ viewPhase = "mounted"
    /\ Len(styleLoadOnce) < MaxStyleLoadOnce
    /\ propHeatmapVisible' = ~propHeatmapVisible
    /\ HeatmapEffect(propHeatmapData, ~propHeatmapVisible)
    /\ mapEvent' = "visibility"
    /\ UNCHANGED <<viewPhase, accessToken, mapRef, propHeatmapData, propRouteData,
                   propActiveRouteKey, propStartCoords, propEndCoords, engine,
                   styleDataOnce, engines, thrown>>

\* A route request resolves: routeData is the next result.
RouteArrives ==
    /\ UNCHANGED <<panicVars, routeVars, geoVars, selectVars, upsertVars, toastVars, labelVars, heatVars>>
    /\ viewPhase = "mounted"
    /\ Len(styleDataOnce) < MaxStyleDataOnce
    /\ propRouteData.id < MaxResult
    /\ \E polygons \in BOOLEAN :
        LET route == [id |-> propRouteData.id + 1, polygons |-> polygons]
        IN /\ propRouteData' = route
           /\ RouteEffect(route, propActiveRouteKey)
    /\ mapEvent' = "route"
    /\ UNCHANGED <<viewPhase, accessToken, mapRef, propHeatmapData,
                   propHeatmapVisible, propActiveRouteKey, propStartCoords,
                   propEndCoords, engine, styleLoadOnce, engines, thrown>>

\* The comparison panel's cards: setActiveRouteKey(key).
SelectRoute ==
    /\ UNCHANGED <<panicVars, routeVars, geoVars, selectVars, upsertVars, toastVars, labelVars, heatVars>>
    /\ viewPhase = "mounted"
    /\ Len(styleDataOnce) < MaxStyleDataOnce
    /\ \E key \in RouteKeys :
        /\ key # propActiveRouteKey
        /\ propActiveRouteKey' = key
        /\ RouteEffect(propRouteData, key)
    /\ mapEvent' = "key"
    /\ UNCHANGED <<viewPhase, accessToken, mapRef, propHeatmapData,
                   propHeatmapVisible, propRouteData, propStartCoords,
                   propEndCoords, engine, styleLoadOnce, engines, thrown>>

\* completeMapSelection sets selectedStartCoords or selectedEndCoords.
PickPoint ==
    /\ UNCHANGED <<panicVars, routeVars, geoVars, selectVars, upsertVars, toastVars, labelVars, heatVars>>
    /\ viewPhase = "mounted"
    /\ \E field \in Fields, point \in 1..MaxPick :
        LET start == IF field = "start" THEN point ELSE propStartCoords
            end == IF field = "end" THEN point ELSE propEndCoords
        IN /\ <<start, end>> # <<propStartCoords, propEndCoords>>
           /\ propStartCoords' = start
           /\ propEndCoords' = end
           /\ SelectionEffect(start, end)
    /\ mapEvent' = "pick"
    /\ UNCHANGED <<viewPhase, accessToken, mapRef, propHeatmapData,
                   propHeatmapVisible, propRouteData, propActiveRouteKey, engine,
                   styleDataOnce, engines, thrown>>

\* The engine emits "styledata": the queued drawRoutes run.
StyleData ==
    /\ UNCHANGED <<panicVars, routeVars, geoVars, selectVars, upsertVars, toastVars, labelVars, heatVars>>
    /\ engine \in {"loading", "loaded"}
    /\ Commit(RunStyleDataOnce(World, styleDataOnce, mapRef))
    /\ styleDataOnce' = <<>>
    /\ mapEvent' = "styledata"
    /\ UNCHANGED <<viewPhase, accessToken, mapRef, propHeatmapData,
                   propHeatmapVisible, propRouteData, propActiveRouteKey,
                   propStartCoords, propEndCoords, engine, styleLoadOnce, engines,
                   thrown>>

\* The style has finished loading: the engine emits "styledata" and then its
\* readiness signal "style.load".
StyleLoad ==
    /\ UNCHANGED <<panicVars, routeVars, geoVars, selectVars, upsertVars, toastVars, labelVars, heatVars>>
    /\ engine = "loading"
    /\ engine' = "loaded"
    /\ Commit(RunStyleLoadOnce(RunStyleDataOnce(World, styleDataOnce, mapRef),
                               styleLoadOnce))
    /\ styleDataOnce' = <<>>
    /\ styleLoadOnce' = <<>>
    /\ mapEvent' = "styleload"
    /\ UNCHANGED <<viewPhase, accessToken, mapRef, propHeatmapData,
                   propHeatmapVisible, propRouteData, propActiveRouteKey,
                   propStartCoords, propEndCoords, engines, thrown>>

\* The map the delayed callback of handleStyleLoad works on: mapRef.current
\* at the time it runs, if its style is loaded.
TimerMap == mapRef /\ engine = "loaded"

\* The 100 ms timer of handleStyleLoad expires.
TimerFires ==
    /\ UNCHANGED <<panicVars, routeVars, geoVars, selectVars, upsertVars, toastVars, labelVars, heatVars>>
    /\ timer.armed
    /\ IF TimerMap
       THEN Commit([UpdateSelectionMarkers(World, timer.start, timer.end)
                      EXCEPT !.timer = NoTimer])
       ELSE /\ timer' = NoTimer
            /\ UNCHANGED <<sources, layers, markers, hasControl, startMarkerRef,
                           endMarkerRef, waypointMarkersRef,
                           selectionStartMarkerRef, selectionEndMarkerRef>>
    /\ mapEvent' = "timer"
    /\ UNCHANGED <<viewPhase, accessToken, mapRef, propHeatmapData,
                   propHeatmapVisible, propRouteData, propActiveRouteKey,
                   propStartCoords, propEndCoords, engine, styleLoadOnce,
                   styleDataOnce, engines, thrown>>

\* The view unmounts: the cleanups run in the order of the effects.
UnmountMap ==
    /\ UNCHANGED <<panicVars, routeVars, geoVars, selectVars, upsertVars, toastVars, labelVars, heatVars>>
    /\ viewPhase = "mounted"
    /\ viewPhase' = "gone"
    /\ engine' = IF mapRef THEN CleanupRemoves(engine) ELSE engine
    /\ mapRef' = FALSE
    /\ styleLoadOnce' = WithoutHandleStyleLoad(styleLoadOnce)
    /\ mapEvent' = "unmount"
    /\ UNCHANGED <<accessToken, propHeatmapData, propHeatmapVisible, propRouteData,
                   propActiveRouteKey, propStartCoords, propEndCoords,
                   styleDataOnce, worldVars, engines, thrown>>

----------------------------------------------------------------------------
(* The create-or-update helpers called directly, in any order, on a style  *)
(* that starts empty.                                                      *)

LineLayerIds == {"shortest-route-line", "safest-route-line"}

LineSourceOf(id) == IF id = "shortest-route-line" THEN "shortest-route"
                                                  ELSE "safest-route"

RouteSourceIds == {LineSourceOf(id) : id \in LineLayerIds}

Paints == {"active", "inactive"}

DashArrays == {"none", "2,2"}

Opacities == {"default", "dim"}

InitUpsert ==
    /\ styleSources = [id \in SourceIds |-> NoSource]
    /\ styleLayers = [id \in LayerIds |-> NoLayer]
    /\ upsertCalls = <<>>

UpsertSource ==
    /\ UNCHANGED <<panicVars, routeVars, geoVars, selectVars, mapVars, toastVars, labelVars, heatVars>>
    /\ Len(upsertCalls) < MaxUpserts
    /\ \E id \in RouteSourceIds, data \in 1..MaxData :
        /\ styleSources' = EnsureGeoJSONSource(styleSources, id, data)
        /\ upsertCalls' = Append(upsertCalls,
              [fn |-> "source", id |-> id, data |-> data, paint |-> "none",
               dash |-> "none"])
    /\ UNCHANGED styleLayers

UpsertLineLayer ==
    /\ UNCHANGED <<panicVars, routeVars, geoVars, selectVars, mapVars, toastVars, labelVars, heatVars>>
    /\ Len(upsertCalls) < MaxUpserts
    /\ \E id \in LineLayerIds, paint \in Paints, dasharray \in DashArrays :
        /\ styleLayers' = EnsureLineLayer(styleLayers, id, LineSourceOf(id), paint,
                                          dasharray)
        /\ upsertCalls' = Append(upsertCalls,
              [fn |-> "line", id |-> id, data |-> 0, paint |-> paint,
               dash |-> dasharray])
    /\ UNCHANGED styleSources

UpsertPolygonLayer ==
    /\ UNCHANGED <<panicVars, routeVars, geoVars, selectVars, mapVars, toastVars, labelVars, heatVars>>
    /\ Len(upsertCalls) < MaxUpserts
    /\ \E opacity \in Opacities :
        /\ styleLayers' = EnsurePolygonLayer(styleLayers, "risk-polygons-fill",
                                             "risk-polygons", opacity)
        /\ upsertCalls' = Append(upsertCalls,
              [fn |-> "polygon", id |-> "risk-polygons-fill", data |-> 0,
               paint |-> opacity, dash |-> "none"])
    /\ UNCHANGED styleSources

UpsertHeatmapLayer ==
    /\ UNCHANGED <<panicVars, routeVars, geoVars, selectVars, mapVars, toastVars, labelVars, heatVars>>
    /\ Len(upsertCalls) < MaxUpserts
    /\ styleLayers' = EnsureHeatmapLayer(styleLayers, "crime")
    /\ upsertCalls' = Append(upsertCalls,
          [fn |-> "heatmap", id |-> "crime-heatmap", data |-> 0,
           paint |-> "heatmap", dash |-> "none"])
    /\ UNCHANGED styleSources

NextUpsert ==
    \/ UpsertSource
    \/ UpsertLineLayer
    \/ UpsertPolygonLayer
    \/ UpsertHeatmapLayer

----------------------------------------------------------------------------
(* PanicButton: the acknowledgment ("toast") of a successful dispatch.     *)
(* The success path of sendAlert shows the message and starts a timer of   *)
(* 5000 ms that hides it; the times of the successes are inputs, on a      *)
(* clock in seconds.                                                       *)

NoAck == 0 - 1

InitToast ==
    /\ clock = 0
    /\ toast = FALSE
    /\ toastTimers = <<>>
    /\ ackAt = NoAck
    /\ acks = 0

\* sendPanicAlert resolved: setToast("Alert sent ..."); setTimeout(() =>
\* setToast(null), 5000). A timer started earlier is not cancelled.
AlertSent ==
    /\ UNCHANGED <<panicVars, routeVars, geoVars, selectVars, mapVars, upsertVars, labelVars, heatVars>>
    /\ acks < MaxAcks
    /\ toast' = TRUE
    /\ toastTimers' = Append(toastTimers, clock + ToastDelay)
    /\ ackAt' = clock
    /\ acks' = acks + 1
    /\ UNCHANGED clock

\* A timer is due: its callback runs setToast(null).
ToastTimerFires ==
    /\ UNCHANGED <<panicVars, routeVars, geoVars, selectVars, mapVars, upsertVars, labelVars, heatVars>>
    /\ toastTimers # <<>>
    /\ Head(toastTimers) <= clock
    /\ toast' = FALSE
    /\ toastTimers' = Tail(toastTimers)
    /\ UNCHANGED <<clock, ackAt, acks>>

\* A second passes; a timer that is due runs first.
Advance ==
    /\ UNCHANGED <<panicVars, routeVars, geoVars, selectVars, mapVars, upsertVars, labelVars, heatVars>>
    /\ clock < MaxTime
    /\ toastTimers # <<>> => Head(toastTimers) > clock
    /\ clock' = clock + 1
    /\ UNCHANGED <<toast, toastTimers, ackAt, acks>>

NextToast ==
    \/ AlertSent
    \/ ToastTimerFires
    \/ Advance

----------------------------------------------------------------------------
(* RouteForm: applyCoords and the label of a field.  A label is the text   *)
(* shown for a field together with the coordinate it describes: the        *)
(* formatted coordinate (or the caller's hint), or the place name that a   *)
(* reverse lookup returned for that coordinate.                            *)

FormattedLabel(point) == [of |-> point, text |-> "coords"]

PlaceLabel(point) == [of |-> point, text |-> "place"]

InitLabel ==
    /\ startLabel = FormattedLabel(DefaultPoint)
    /\ endLabel = FormattedLabel(DefaultPoint)
    /\ reverseLookups = {}
    /\ reverseCount = 0

\* applyCoords(field, coords, labelHint) up to its await: the coordinates and
\* the label of the field are set, updateSelectedCoords is called and the
\* reverse lookup for the coordinate is started.
SelectLocation ==
    /\ UNCHANGED <<panicVars, routeVars, geoVars, mapVars, upsertVars, toastVars, heatVars>>
    /\ reverseCount < MaxReverse
    /\ \E field \in Fields, point \in 1..MaxClick :
        /\ ApplyCoords(field, point)
        /\ startLabel' = IF field = "start" THEN FormattedLabel(point) ELSE startLabel
        /\ endLabel' = IF field = "start" THEN endLabel ELSE FormattedLabel(point)
        /\ reverseLookups' = reverseLookups \cup
              {[n |-> reverseCount + 1, field |-> field, point |-> point]}
    /\ reverseCount' = reverseCount + 1
    /\ UNCHANGED <<mapSelectionTarget, mapSelectionCallbacks, registrations,
                   handlerCount, deregistered, invoked, selEvent, begun, clicked,
                   overwritten, deregPending, clickListeners, sinceBegin>>

\* reverseGeocode resolves: with a feature, the label of the call's field
\* becomes the feature's place name; with null the label is left alone.
ReverseResolves ==
    /\ UNCHANGED <<panicVars, routeVars, geoVars, selectVars, mapVars, upsertVars, toastVars, heatVars>>
    /\ \E l \in reverseLookups, feature \in BOOLEAN :
        /\ reverseLookups' = reverseLookups \ {l}
        /\ startLabel' = IF feature /\ l.field = "start" THEN PlaceLabel(l.point)
                         ELSE startLabel
        /\ endLabel' = IF feature /\ l.field # "start" THEN PlaceLabel(l.point)
                       ELSE endLabel
    /\ UNCHANGED reverseCount

\* reverseGeocode rejects: the catch logs a warning.
ReverseRejects ==
    /\ UNCHANGED <<panicVars, routeVars, geoVars, selectVars, mapVars, upsertVars, toastVars, heatVars>>
    /\ \E l \in reverseLookups : reverseLookups' = reverseLookups \ {l}
    /\ UNCHANGED <<startLabel, endLabel, reverseCount>>

NextLabel ==
    \/ SelectLocation
    \/ ReverseRejects
    \/ ReverseResolves

----------------------------------------------------------------------------
(* DashboardProvider: the heatmap query, useQuery with retry: 2 and        *)
(* retryDelay: 1000.  The query starts its first attempt when the provider *)
(* mounts; the times of the responses are inputs, on a clock in seconds.   *)

NoRetry == 0 - 1

\* The query client's answer to the window regaining focus.  The client is
\* constructed outside the files at hand; the error state is static.
RefetchOnWindowFocus == FALSE

InitHeat ==
    /\ heatClock = 0
    /\ heatFetching = TRUE
    /\ heatLoaded = FALSE
    /\ heatmapError = FALSE
    /\ failureCount = 0
    /\ retryAt = NoRetry
    /\ heatAttempts = 1
    /\ heatFailedAt = NoRetry
    /\ heatEvent = "mount"

\* retry: 2: a failed attempt is retried while fewer than 2 attempts have
\* failed before it.
ShouldRetryOnceMore(failures) == failures <= HeatmapRetry
ShouldRetry(failures) == failures < HeatmapRetry

\* retryDelay: 1000: the same delay before every retry.
RetryDelay(failures) == HeatmapRetryDelay

\* fetchCrimeHeatmap rejects.
HeatFails ==
    /\ UNCHANGED <<panicVars, routeVars, geoVars, selectVars, mapVars, upsertVars, toastVars, labelVars>>
    /\ heatFetching
    /\ heatFetching' = FALSE
    /\ failureCount' = failureCount + 1
    /\ heatFailedAt' = heatClock
    /\ heatEvent' = "fail"
    /\ IF ShouldRetry(failureCount)
       THEN /\ retryAt' = heatClock + RetryDelay(failureCount)
            /\ UNCHANGED heatmapError
       ELSE /\ retryAt' = NoRetry
            /\ heatmapError' = TRUE
    /\ UNCHANGED <<heatClock, heatLoaded, heatAttempts>>

\* The retry timer is due: the next attempt starts.
HeatRetryFires ==
    /\ UNCHANGED <<panicVars, routeVars, geoVars, selectVars, mapVars, upsertVars, toastVars, labelVars>>
    /\ retryAt # NoRetry
    /\ retryAt <= heatClock
    /\ retryAt' = NoRetry
    /\ heatFetching' = TRUE
    /\ heatAttempts' = heatAttempts + 1
    /\ heatEvent' = "retry"
    /\ UNCHANGED <<heatClock, heatLoaded, heatmapError, failureCount, heatFailedAt>>

\* fetchCrimeHeatmap resolves: the query holds the data.
HeatResolves ==
    /\ UNCHANGED <<panicVars, routeVars, geoVars, selectVars, mapVars, upsertVars, toastVars, labelVars>>
    /\ heatFetching
    /\ heatFetching' = FALSE
    /\ heatLoaded' = TRUE
    /\ failureCount' = 0
    /\ heatEvent' = "ok"
    /\ UNCHANGED <<heatClock, heatmapError, retryAt, heatAttempts, heatFailedAt>>

\* The window regains focus.
WindowFocus ==
    /\ UNCHANGED <<panicVars, routeVars, geoVars, selectVars, mapVars, upsertVars, toastVars, labelVars>>
    /\ heatEvent' = "focus"
    /\ IF RefetchOnWindowFocus /\ heatmapError /\ ~heatFetching
       THEN /\ heatFetching' = TRUE
            /\ heatAttempts' = heatAttempts + 1
            /\ failureCount' = 0
       ELSE UNCHANGED <<heatFetching, heatAttempts, failureCount>>
    /\ UNCHANGED <<heatClock, heatLoaded, heatmapError, retryAt, heatFailedAt>>

\* A second passes; a retry that is due starts first.
HeatAdvance ==
    /\ UNCHANGED <<panicVars, routeVars, geoVars, selectVars, mapVars, upsertVars, toastVars, labelVars>>
    /\ heatClock < MaxHeatTime
    /\ retryAt # NoRetry => retryAt > heatClock
    /\ heatClock' = heatClock + 1
    /\ heatEvent' = "time"
    /\ UNCHANGED <<heatFetching, heatLoaded, heatmapError, failureCount, retryAt,
                   heatAttempts, heatFailedAt>>

NextHeat ==
    \/ HeatFails
    \/ HeatRetryFires
    \/ HeatResolves
    \/ WindowFocus
    \/ HeatAdvance

----------------------------------------------------------------------------
NextMap ==
    \/ MountMap
    \/ HeatmapArrives
    \/ ToggleHeatmap
    \/ RouteArrives
    \/ SelectRoute
    \/ PickPoint
    \/ StyleData
    \/ StyleLoad
    \/ TimerFires
    \/ UnmountMap

----------------------------------------------------------------------------
(* Specifications. *)

Init ==
    /\ InitPanic /\ InitRoute /\ InitGeo /\ InitSelect /\ InitMap /\ InitUpsert
    /\ InitToast /\ InitLabel /\ InitHeat

Next ==
    \/ NextPanicFeed \/ NextRoute \/ NextGeo \/ NextSelect \/ NextMap \/ NextUpsert
    \/ NextToast \/ NextLabel \/ NextHeat

\* All components together. The components share no variable, so each is
\* explored under a specification of its own; the panic button's `disabled`
\* prop, which the dashboard feeds from isRouteLoading, is left free to change
\* at any time (SetDisabled).
Spec == Init /\ [][Next]_vars

SpecPanic == Init /\ [][NextPanic]_vars

SpecPanicFeed == Init /\ [][NextPanicFeed]_vars

SpecRoute == Init /\ [][NextRoute]_vars

SpecGeo == Init /\ [][NextGeo]_vars

SpecSelect == Init /\ [][NextSelect]_vars

SpecMap == Init /\ [][NextMap]_vars

SpecUpsert == Init /\ [][NextUpsert]_vars

SpecToast == Init /\ [][NextToast]_vars

SpecLabel == Init /\ [][NextLabel]_vars

SpecHeat == Init /\ [][NextHeat]_vars

----------------------------------------------------------------------------
(* Claims about the panic button, checked under SpecPanic. *)

\* C1: every confirmation flow issues exactly one dispatch call: the number of
\* sendPanicAlert calls equals the number of confirmations that ended by
\* 'send now' or by countdown expiry (no second dispatch when the original
\* countdown runs out after 'send now').
C1_OneDispatchPerConfirmation == dispatchCount = confirmEnded

\* C3: the countdown interval is live only while the status is confirming and
\* the component is mounted, so no tick can fire in idle, sending, sent or
\* error, nor after unmount.
C3_TimerOnlyWhileConfirming ==
    \A t \in intervals : mounted /\ status = "confirming"

\* C4: cancel sets status idle and countdown 0 and stops the timer; after it,
\* until the next user click, the status, the countdown and the number of
\* dispatch calls do not change.
C4_CancelIsFinal ==
    [][ /\ (lastEvent' = "cancel" /\ status = "confirming"
              => status' = "idle" /\ countdown' = 0 /\ timerRef' = Null)
        /\ (cancelled /\ lastEvent' # "click"
              => UNCHANGED <<status, countdown, dispatchCount>>) ]_vars

\* C5: a dispatch call carries the position that is the latest known at the
\* moment it is issued, also when it is issued by countdown expiry after the
\* position feed delivered a new coordinate during the countdown.
C5_DispatchCarriesLatestPosition ==
    lastCall.via # "none" => lastCall.lat = lastCall.known /\ lastCall.userId = CurrentUser

\* C8: from idle, with a position and not disabled, a click sets confirming
\* with countdown 5; each tick lowers the countdown by 1; with no user action
\* the fifth tick moves the status to sending, and a successful dispatch then
\* moves it to sent.
C8_CountdownRunsToSent ==
    /\ (flowTicks \in 0..(CountdownStart - 1) => countdown = 5 - flowTicks)
    /\ (flowTicks = 0 /\ lastEvent = "click" => status = "confirming")
    /\ (flowTicks = 5 => status = "sending" /\ countdown = 0 /\ lastCall.via = "expiry")
    /\ (flowTicks = 6 => status = "sent")

\* C8 witness: a click from idle, five undisturbed ticks and a successful
\* dispatch have happened.
C8_Witness == flowTicks = 6 /\ status = "sent" /\ lastEvent = "ok" /\ dispatchCount = 1

\* C9: the status changes only along idle->confirming, confirming->idle,
\* confirming->sending, sending->sent, sending->error, and sent/error->
\* confirming by a user click.
C9_OnlyListedEdges ==
    [][ status' # status =>
          \/ <<status, status'>> \in {<<"idle", "confirming">>, <<"confirming", "idle">>,
                                      <<"confirming", "sending">>, <<"sending", "sent">>,
                                      <<"sending", "error">>}
          \/ (status \in {"sent", "error"} /\ status' = "confirming" /\ lastEvent' = "click")
      ]_vars

\* C10: while the button is disabled (the disabled flag is set, or no position
\* has arrived), a click does not move the status from idle to confirming and
\* 'send now' does not start a dispatch.
C10_DisabledBlocksClickAndSendNow ==
    [][ (disabled \/ coords = Null) =>
          /\ (lastEvent' = "click" /\ status = "idle" => status' = "idle")
          /\ (lastEvent' = "sendNow" => dispatchCount' = dispatchCount)
      ]_vars

\* C11: when the dispatch call fails the status becomes error and no
\* timestamp is recorded; no further dispatch is issued until the user clicks
\* the panic button again, and that click starts a new confirmation with a
\* countdown of 5.
C11_FailureWaitsForClick ==
    [][ /\ (lastEvent' = "fail" /\ mounted
              => /\ status' = "error"
                 /\ UNCHANGED <<lastTimestamp, lastAlertAt>>)
        /\ (failed /\ lastEvent' # "click" => dispatchCount' = dispatchCount)
        /\ (failed /\ status = "error" /\ lastEvent' = "click" /\ PanicButtonEnabled
              => status' = "confirming" /\ countdown' = CountdownStart)
      ]_vars

\* C12: when the dispatch call succeeds the status becomes sent and the
\* response's timestamp becomes the button's lastTimestamp and, through
\* recordAlert, the shared lastAlertAt; lastAlertAt then changes only by a
\* later successful alert or by logout.
C12_SuccessRecordsTimestamp ==
    [][ /\ (lastEvent' = "ok" /\ mounted
              => /\ status' = "sent"
                 /\ \E p \in pending \ pending' :
                        lastTimestamp' = Stamp(p) /\ lastAlertAt' = Stamp(p))
        /\ (lastAlertAt' # lastAlertAt => lastEvent' \in {"ok", "logout"})
      ]_vars

\* C12 witness: a second alert succeeded after the first one, and lastAlertAt
\* and lastTimestamp hold the second response's timestamp.
C12_Witness ==
    /\ mounted
    /\ lastEvent = "ok"
    /\ status = "sent"
    /\ dispatchCount = 2
    /\ pending = {}
    /\ lastTimestamp = 2
    /\ lastAlertAt = 2

\* C32: while the latest event of the position feed is an error, a click on
\* the panic button does not enter confirming and no alert is dispatched.
\* Checked under SpecPanicFeed.
C32_FeedErrorBlocksPanic ==
    [][ geoError =>
          /\ (lastEvent' = "click" /\ status # "confirming" => status' # "confirming")
          /\ dispatchCount' = dispatchCount
      ]_vars

\* C35: the panic machine's transitions depend only on its own events, the
\* position feed and the identity: whether a click starts a confirmation is
\* the same with and without a route request in flight (the dashboard passes
\* that as the button's `disabled` prop), so a click with a known position in
\* idle, sent or error starts the confirmation whatever the prop's value.
C35_ClickIgnoresRouteRequest ==
    [][ lastEvent' = "click" /\ mounted /\ coords # Null
          /\ status \in {"idle", "sent", "error"}
          => status' = "confirming" /\ countdown' = CountdownStart
      ]_vars

\* C36: at most one countdown interval exists at any time, and every live
\* interval is the one whose handle is stored in timerRef: starting a new
\* confirmation never leaves an earlier interval running whose handle has been
\* overwritten.
C36_AtMostOneInterval ==
    /\ Cardinality(intervals) <= 1
    /\ \A t \in intervals : t.id = timerRef

----------------------------------------------------------------------------
(* Claims about route requests, checked under SpecRoute. *)

\* C2: the displayed route result always belongs to a request submitted no
\* earlier than the request of any result displayed before it; the late
\* response of an older request does not overwrite a newer request's result.
C2_DisplayedResultNeverOlder ==
    routeData # NoData => routeData.req >= maxShown

\* C2 witness: request 2's result is displayed and request 1, submitted before
\* it, resolved successfully after it.
C2_Witness ==
    /\ routeData.req = 2
    /\ lastResolved = 1
    /\ mutations[1].state = "success"

\* C6: when a route request fails, the result displayed before that request
\* is still the current result, unchanged, and the error state is set.
C6_FailureKeepsPriorResult ==
    (currentMutation # 0 /\ mutations[currentMutation].state = "error")
        => routeError # 0 /\ routeData = shownAtSubmit

\* C13: after a route request with params P has failed, the retry action
\* submits a request whose params are identical to P.
C13_RetryResubmitsSameParams ==
    \A i \in 1..Len(mutations) :
        mutations[i].origin = "retry"
            => /\ mutations[i].retryOf \in 1..(i - 1)
               /\ mutations[mutations[i].retryOf].state = "error"
               /\ mutations[i].params = mutations[mutations[i].retryOf].params

\* C13 witness: a form submit with a pair other than the default failed and
\* was retried.
C13_Witness ==
    /\ Len(mutations) = 3
    /\ mutations[2].origin = "form"
    /\ mutations[2].params # DefaultCoords
    /\ mutations[2].state = "error"
    /\ mutations[3].origin = "retry"
    /\ mutations[3].retryOf = 2

\* C14: requestRoute called without params submits the params of the most
\* recent earlier submission, and the default pair when there was none, also
\* when the call follows another requestRoute call before the component has
\* re-rendered.
C14_NoParamsReusesLastSubmission ==
    \A i \in 1..Len(mutations) :
        mutations[i].payload = NoPayload
            => mutations[i].params =
                  IF i = 1 THEN DefaultCoords ELSE mutations[i - 1].params

\* C15: when the current route request succeeds, the displayed result is that
\* response as a whole, field for field, and the route error is cleared.
C15_SuccessReplacesResult ==
    (currentMutation # 0 /\ mutations[currentMutation].state = "success")
        => /\ routeData = Response(currentMutation)
           /\ routeError = 0
           /\ ~isRouteLoading

\* C15 witness: the current request succeeded while an earlier request's
\* result, for another pair, was on display when it was submitted.
C15_Witness ==
    /\ currentMutation >= 2
    /\ mutations[currentMutation].state = "success"
    /\ lastResolved = currentMutation
    /\ shownAtSubmit # NoData
    /\ shownAtSubmit.start # routeData.start

\* C16: a displayed result belongs to the request submitted last, and its
\* start and end are the start and end that were submitted with it; once that
\* request has resolved successfully its result is displayed.
C16_ResultEchoesSubmittedPair ==
    /\ routeData # NoData
          => /\ routeData.req = Len(mutations)
             /\ routeData.start = StartOf(mutations[routeData.req].params)
             /\ routeData.end = EndOf(mutations[routeData.req].params)
    /\ (mutations # <<>> /\ mutations[Len(mutations)].state = "success")
          => routeData # NoData

\* C16 witness: the result of a form submit with a pair other than the
\* default is displayed.
C16_Witness ==
    /\ routeData # NoData
    /\ mutations[routeData.req].origin = "form"
    /\ mutations[routeData.req].params # DefaultCoords
    /\ routeData.start = StartOf(mutations[routeData.req].params)

\* C17: mounting the provider issues exactly one automatic route request, for
\* the default pair, and records that pair as lastRouteParams; when this
\* request fails the rejection is caught and does not propagate.
C17_MountIssuesOneDefaultRequest ==
    /\ ~routeInit => mutations = <<>>
    /\ routeInit =>
          /\ {i \in 1..Len(mutations) : mutations[i].origin = "mount"} = {1}
          /\ mutations[1].params = DefaultCoords
          /\ (Len(mutations) = 1 => lastRouteParams = DefaultCoords)
          /\ 1 \notin uncaught

\* C17 witness: the automatic request is the only one and has failed.
C17_Witness ==
    /\ routeInit
    /\ Len(mutations) = 1
    /\ mutations[1].state = "error"
    /\ routeError = 1

\* C31: every failure of a request is caught where the request was started:
\* no invocation path (initial mount, form submit, retry button) leaves a
\* rejected route request without a handler.
C31_EveryRejectionCaught ==
    \A id \in 1..Len(mutations) :
        mutations[id].state = "error" /\ mutations[id].origin \in {"mount", "form", "retry"}
            => id \notin uncaught

----------------------------------------------------------------------------
(* Claims about geocode suggestions, checked under SpecGeo. *)

\* C7: a lookup result is written to the suggestion list only when its query
\* is still the current query when the result arrives; the result of a
\* superseded or aborted query never changes the list.
C7_OnlyCurrentQueryWrites ==
    [][ lastWriter' # lastWriter =>
          /\ lastWriter'.src = query'
          /\ ~lastWriter'.aborted
          /\ results' = Features(Trim(query')) ]_vars

\* C7 witness: the response of a superseded lookup has just arrived and was
\* discarded while the list holds the suggestions of the current query.
C7_Witness ==
    /\ geoEvent = "dropped"
    /\ results = Features(Trim(query))
    /\ lastWriter.src = query

\* C28: a lookup is issued only by the timer that was armed for the current
\* query and has run its 250 ms without a change of the query; a change of
\* the query cancels the armed timer, so a query that was replaced while its
\* timer ran never causes a lookup.
C28_LookupOnlyAfterQuietWindow ==
    [][ /\ (timeoutPending' => timeoutQuery' = query')
        /\ (lookups' # lookups /\ geoEvent' = "lookup"
              => /\ timeoutPending
                 /\ \A l \in lookups' \ lookups : l.src = query /\ l.src = timeoutQuery)
        /\ (geoEvent' # "lookup" => lookups' \subseteq lookups \/
                                     {l.id : l \in lookups'} = {l.id : l \in lookups})
      ]_vars

\* C28 witness: a query was replaced while its timer was armed, and the only
\* lookup issued is the one for the query that replaced it.
C28_Witness ==
    /\ geoEvent = "lookup"
    /\ cancelledTimer
    /\ lookups # {}
    /\ \A l \in lookups : l.src = query

\* C29: when the trimmed query has fewer than 3 characters no lookup is issued
\* for it and the suggestion list is empty at once, and it stays empty also
\* when a lookup for an earlier, longer query is still in flight.
C29_ShortQueryClearsList ==
    /\ \A l \in lookups : Len(Trim(l.src)) >= MinQueryLen
    /\ Len(Trim(query)) < MinQueryLen => results = <<>> /\ ~timeoutPending

\* C29 witness: the query is short, the response of the lookup for an
\* earlier, longer query has just arrived, and the list is empty.
C29_Witness ==
    /\ geoEvent = "dropped"
    /\ Len(query) > 0
    /\ Len(Trim(query)) < MinQueryLen
    /\ results = <<>>

\* C30: when a lookup fails for a reason other than abort, the suggestion
\* list becomes empty and the error flag is set.
C30_FailureEmptiesList ==
    [][ geoEvent' = "failed" => results' = <<>> /\ error' = TRUE ]_vars

----------------------------------------------------------------------------
(* Claims about map selection, checked under SpecSelect. *)

\* C18: after any sequence of beginSelection calls followed by one map click,
\* exactly the handler registered for the most recently begun field is
\* invoked, once, with the clicked coordinate, no handler of another field is
\* invoked, and the selection target is none afterwards.
C18_LatestBegunFieldHandled ==
    selEvent \in {"click", "dropped"} =>
        /\ mapSelectionTarget = "none"
        /\ Len(invoked) = IF mapSelectionCallbacks[begun] # 0 THEN 1 ELSE 0
        /\ \A i \in 1..Len(invoked) :
              /\ invoked[i].field = begun
              /\ invoked[i].handler = mapSelectionCallbacks[begun]
              /\ invoked[i].coords = clicked

\* C18 witness: a selection for one field was begun, replaced by a selection
\* for the other field, and a click was delivered to that field's handler.
C18_Witness ==
    /\ selEvent = "click"
    /\ overwritten
    /\ Len(invoked) = 1
    /\ invoked[1].field = begun
    /\ mapSelectionCallbacks[IF begun = "start" THEN "end" ELSE "start"] # 0

\* C19: when completeSelection runs while a target is pending and no handler
\* is registered for it, no handler is invoked, the selected start and end
\* coordinates stay unchanged, and the target is reset to none.
C19_NoHandlerStillResets ==
    [][ ( /\ mapSelectionTarget # "none"
          /\ mapSelectionCallbacks[mapSelectionTarget] = 0
          /\ selEvent' \in {"click", "dropped", "ignored"} )
        => /\ invoked' = <<>>
           /\ UNCHANGED <<selectedStartCoords, selectedEndCoords>>
           /\ mapSelectionTarget' = "none" ]_vars

\* C19 witness: a click completed a selection whose field had no handler.
C19_Witness ==
    /\ selEvent = "dropped"
    /\ mapSelectionTarget = "none"
    /\ invoked = <<>>
    /\ mapSelectionCallbacks[begun] = 0

\* C20: once the de-registration function of a handler has been invoked, no
\* later completeSelection invokes that handler, also when a selection for
\* its field was pending at the time of de-registration.
C20_DeregisteredNeverInvoked ==
    \A i \in 1..Len(invoked) : invoked[i].handler \notin deregistered

\* C20 witness: a handler was de-registered while a selection for its field
\* was pending, and the click that completed the selection has been handled.
C20_Witness ==
    /\ selEvent \in {"click", "dropped"}
    /\ deregPending
    /\ deregistered # {}

\* C21: a map click that arrives while the selection target is none invokes
\* no selection handler and leaves the selection target, the selected
\* coordinates and the form fields unchanged.
C21_ClickWithoutTargetIgnored ==
    [][ (mapSelectionTarget = "none" /\ selEvent' \in {"click", "dropped", "ignored"})
        => /\ invoked' = <<>>
           /\ UNCHANGED <<mapSelectionTarget, selectedStartCoords, selectedEndCoords,
                          startCoords, endCoords>> ]_vars

\* C21 witness: after a completed selection of the start field, a click on
\* another point was ignored.
C21_Witness ==
    /\ selEvent = "ignored"
    /\ mapSelectionTarget = "none"
    /\ begun = "start"
    /\ selectedStartCoords # Null
    /\ clicked # selectedStartCoords

C39_DeregisterRemovesOwnHandlerOnly ==
    [][ selEvent' = "deregister" =>
          \A f \in Fields :
              mapSelectionCallbacks[f] # 0 /\ mapSelectionCallbacks[f] \notin deregistered'
                  => mapSelectionCallbacks'[f] = mapSelectionCallbacks[f]
      ]_vars

----------------------------------------------------------------------------
(* Claims about the map view, checked under SpecMap. *)

\* What the engine shows of the heatmap and of the routes.
RenderedHeatmap ==
    [data |-> sources["crime"].data,
     visible |-> layers["crime-heatmap"].visibility = "visible"]

RenderedRoute ==
    [shortest |-> sources["shortest-route"].data,
     safest |-> sources["safest-route"].data,
     polygons |-> sources["risk-polygons"].data,
     shortestPaint |-> layers["shortest-route-line"].paint,
     safestPaint |-> layers["safest-route-line"].paint]

\* What the view's latest context values ask for.
LatestHeatmap == [data |-> propHeatmapData, visible |-> propHeatmapVisible]

LatestRoute ==
    [shortest |-> propRouteData.id,
     safest |-> propRouteData.id,
     polygons |-> IF propRouteData.polygons THEN propRouteData.id ELSE 0,
     shortestPaint |-> LinePaint("shortest", propActiveRouteKey),
     safestPaint |-> LinePaint("safest", propActiveRouteKey)]

RouteMarkers == {m \in markers : m.kind \in {"start", "end", "waypoint"}}

SelectionMarkers == {m \in markers : m.kind \in {"selStart", "selEnd"}}

\* The selection markers that the coordinates of the latest render ask for.
LatestSelectionMarkers ==
    {SelectionMarker("selStart", propStartCoords) : i \in {1} \cap {propStartCoords}}
        \cup {SelectionMarker("selEnd", propEndCoords) : i \in {1} \cap {propEndCoords}}

\* C22: while the engine has not signalled style-loaded, no step changes the
\* sources, the layers or the markers of the map.
C22_NoMutationBeforeStyleLoaded ==
    [][ engine' = "loading" => UNCHANGED <<sources, layers, markers>> ]_vars

\* C23: right after the readiness signal, what is rendered of the heatmap
\* and of the routes is what the latest update of each kind asked for, when
\* the updates arrived before readiness.
C23_LatestUpdateRendered ==
    (mapEvent = "styleload" /\ mapRef)
        => /\ propHeatmapData # 0 => RenderedHeatmap = LatestHeatmap
           /\ propRouteData # NoRoute => RenderedRoute = LatestRoute

\* C37: after a new route result has been drawn, every rendered route source
\* (shortest, safest, risk polygons) shows data of that result only: a source
\* the new result has no data for does not keep the previous result's data.
C37_RouteSourcesShowNewResultOnly ==
    (mapEvent = "route" /\ mapRef /\ engine = "loaded")
        => /\ sources["shortest-route"].data = propRouteData.id
           /\ sources["safest-route"].data = propRouteData.id
           /\ sources["risk-polygons"].data
                  = IF propRouteData.polygons THEN propRouteData.id ELSE 0

\* C24: per mount at most one engine instance is constructed, none without
\* an access token, and no exception leaves the initialization.
C24_AtMostOneEngine ==
    /\ engines <= 1
    /\ ~accessToken => engines = 0 /\ engine = "none"
    /\ (engines = 0) = (engine = "none")
    /\ ~thrown

\* C24 witness: the view is mounted with a token, the engine's constructor
\* threw, and no instance exists.
C24_Witness ==
    /\ viewPhase = "mounted"
    /\ accessToken
    /\ engines = 0
    /\ ~mapRef

C27_MarkersFollowTheirOwnData ==
    /\ [](\A m, n \in RouteMarkers : m.of = n.of)
    /\ [](\A m, n \in SelectionMarkers : m.kind = n.kind => m = n)
    /\ [][SelectionMarkers' # SelectionMarkers
            => SelectionMarkers' = LatestSelectionMarkers']_vars

----------------------------------------------------------------------------
(* Claims about the create-or-update helpers, checked under SpecUpsert. *)

LastUpsert == upsertCalls[Len(upsertCalls)]

\* C26: after any sequence of upserts each id has at most one source or
\* layer, added once, and the source or layer of the last call shows that
\* call's data or properties.
C26_SecondCallShown ==
    /\ \A id \in SourceIds : styleSources[id].adds <= 1
    /\ \A id \in LayerIds : styleLayers[id].adds <= 1
    /\ upsertCalls # <<>> =>
        /\ LastUpsert.fn = "source"
              => styleSources[LastUpsert.id] = [adds |-> 1, data |-> LastUpsert.data]
        /\ LastUpsert.fn # "source"
              => /\ styleLayers[LastUpsert.id].adds = 1
                 /\ styleLayers[LastUpsert.id].paint = LastUpsert.paint
                 /\ styleLayers[LastUpsert.id].dash = LastUpsert.dash

----------------------------------------------------------------------------
(* Claims about the acknowledgment, checked under SpecToast. *)

\* C34: the acknowledgment shown after a successful dispatch stays visible
\* for 5 seconds and is then cleared; when a second alert succeeds less than
\* 5 seconds after the first, the second acknowledgment stays visible until
\* 5 seconds after the second success.
C34_AckVisibleFiveSeconds ==
    ackAt # NoAck =>
        /\ (clock < ackAt + ToastDelay => toast)
        /\ (clock > ackAt + ToastDelay => ~toast)

----------------------------------------------------------------------------
(* Claims about the form's labels, checked under SpecLabel. *)

\* C38: once all reverse lookups have resolved, the label shown for a field
\* belongs to the field's current coordinate: a late lookup for an earlier
\* coordinate does not overwrite the label of a newer selection.
C38_LabelBelongsToCurrentCoordinate ==
    reverseLookups = {} => startLabel.of = startCoords /\ endLabel.of = endCoords

----------------------------------------------------------------------------
(* Claims about the heatmap query, checked under SpecHeat. *)

====
